---------------------------- MODULE Spec2Model ----------------------------
(***************************************************************************)
(* A model of metal/label_model/label_model.py: the LabelModel object, its *)
(* input validation (_check_L), the polarity and overlaps estimator        *)
(* (_infer_polarity, _get_overlaps_matrix), the fitter (_init_params,      *)
(* _task_loss, get_loss, the SGD loop of train) and the predictor          *)
(* (predict_proba, predict_task_proba).                                    *)
(*                                                                         *)
(* Numbers.  The float64 matrices of _get_overlaps_matrix are modelled as  *)
(* extended rationals: a finite value n/d in lowest terms, +/-inf or NaN   *)
(* with the IEEE-754 rules the code runs into (1/0 = inf, 0*inf = NaN, NaN *)
(* propagates).  The float32 tensors of the fitter (gamma, the gradient,   *)
(* the momentum buffer) are modelled in fixed point: an integer x stands   *)
(* for x/Scale and every product is rounded to the nearest unit.  The      *)
(* predictor's log-odds are kept as odds (the exponential of the float the *)
(* code holds), so a dot product with a sign vector is a product of powers *)
(* and the softmax is an exact normalisation.                              *)
(***************************************************************************)
EXTENDS Integers, Sequences, FiniteSets, TLC

(***************************************************************************)
(* Bounds of the model.                                                    *)
(***************************************************************************)
MaxN == 2        \* rows (data points) of a vote matrix
MaxM == 2        \* columns (labeling sources) of a vote matrix
MaxK == 2        \* largest class value a vote can take
MaxT == 2        \* tasks of a model
MaxEpochs == 2   \* n_epochs of a training run
MaxCells == 2    \* entries of a matrix passed to a method of the object

Scale == 10 * 10 \* fixed-point units per 1.0

VARIABLES
    multitask,   \* self.multitask
    T,           \* self.T
    M,           \* self.M            (NoAttr until _check_L(init=True) sets it)
    K_t,         \* self.K_t          (Unset until _check_L(init=True) sets it)
    label_map,   \* self.label_map    (None or the list of per-task label lists)
    config,      \* self.config       (the keys train reads)
    gamma,       \* self.gamma        (Unset until _init_params creates it)
    gamma_init,  \* self.gamma_init   (meaningful once gamma is set)
    pc,          \* "idle", or "train" while the epoch loop of train runs
    O,           \* train's local list of overlaps matrices, in fixed point
    epoch,       \* train's loop counter
    buf,         \* the optimizer's momentum buffer (Unset before the first step)
    last,        \* the last call made on the object and how it ended
    probe        \* the input and the results of a single-function run

vars == <<multitask, T, M, K_t, label_map, config, gamma, gamma_init,
          pc, O, epoch, buf, last, probe>>

\* An attribute that was never assigned: the empty tuple for a list or a tensor,
\* no columns for self.M.  None (label_map) is the empty tuple as well.
Unset == <<>>
None == <<>>
NoAttr == 0

(***************************************************************************)
(* float64 values: finite rationals, infinities, NaN.                      *)
(***************************************************************************)
Abs(x) == IF x < 0 THEN -x ELSE x

RECURSIVE GCD(_, _)
GCD(a, b) == IF b = 0 THEN a ELSE GCD(b, a % b)

Fin(n, d) ==
    LET s == IF d < 0 THEN -1 ELSE 1
        g == GCD(Abs(n), Abs(d))
    IN  [k |-> "fin", n |-> (s * n) \div g, d |-> (s * d) \div g]

NaN == [k |-> "nan", n |-> 0, d |-> 1]
Inf(s) == [k |-> "inf", n |-> s, d |-> 1]
Zero == Fin(0, 1)
One == Fin(1, 1)

Sign(x) == IF x.n > 0 THEN 1 ELSE IF x.n < 0 THEN -1 ELSE 0

IsNaN(x) == x.k = "nan"

FMul(a, b) ==
    IF a.k = "nan" \/ b.k = "nan" THEN NaN
    ELSE IF a.k = "inf" \/ b.k = "inf"
         THEN IF Sign(a) * Sign(b) = 0 THEN NaN ELSE Inf(Sign(a) * Sign(b))
         ELSE LET g1 == GCD(Abs(a.n), b.d)
                  g2 == GCD(Abs(b.n), a.d)
              IN  Fin((a.n \div g1) * (b.n \div g2),
                      (a.d \div g2) * (b.d \div g1))

FAdd(a, b) ==
    IF a.k = "nan" \/ b.k = "nan" THEN NaN
    ELSE IF a.k = "inf" /\ b.k = "inf"
         THEN IF a.n = b.n THEN a ELSE NaN
         ELSE IF a.k = "inf" THEN a
         ELSE IF b.k = "inf" THEN b
         ELSE LET l == (a.d \div GCD(a.d, b.d)) * b.d
              IN  Fin(a.n * (l \div a.d) + b.n * (l \div b.d), l)

FNeg(a) == IF a.k = "nan" THEN NaN ELSE [a EXCEPT !.n = -a.n]

\* 1 / x for x >= +0, as numpy computes it (1 / 0.0 = inf)
FRecip(a) ==
    IF a.k = "nan" THEN NaN
    ELSE IF a.k = "inf" THEN Zero
    ELSE IF a.n = 0 THEN Inf(1)
    ELSE Fin(a.d, a.n)

\* a < b on values that are not NaN
FLess(a, b) ==
    IF a.k = "inf" THEN a.n < 0 /\ ~(b.k = "inf" /\ b.n < 0)
    ELSE IF b.k = "inf" THEN b.n > 0
    ELSE a.n * b.d < b.n * a.d

(***************************************************************************)
(* Vote matrices: a sequence of N rows, each a sequence of M votes.        *)
(***************************************************************************)
Rows(L_t) == Len(L_t)
Cols(L_t) == Len(L_t[1])

Matrices(N, Mc, V) == [1..N -> [1..Mc -> 0..V]]

AllMatrices ==
    UNION {Matrices(N, Mc, MaxK) : <<N, Mc>> \in (1..MaxN) \X (1..MaxM)}


(***************************************************************************)
(* _infer_polarity: the single class source j votes for on the task.       *)
(***************************************************************************)
\* L_t.data[L_t.indptr[j]:L_t.indptr[j+1]]: the stored (non-zero) votes of column j
ColumnVals(L_t, j) == {L_t[n][j] : n \in 1..Rows(L_t)} \ {0}

\* InferPolarity returning how many classes the column holds, not the class
InferPolarityCount(L_t, j) ==
    LET vals == ColumnVals(L_t, j)
    IN  IF Cardinality(vals) > 1 THEN [ok |-> FALSE, val |-> 0]
        ELSE [ok |-> TRUE, val |-> Cardinality(vals)]

\* InferPolarity that takes the largest class of a column instead of raising
InferPolarityLenient(L_t, j) ==
    LET vals == ColumnVals(L_t, j)
    IN  IF vals = {} THEN [ok |-> TRUE, val |-> 0]
        ELSE [ok |-> TRUE, val |-> CHOOSE v \in vals : \A w \in vals : w <= v]

InferPolarity(L_t, j) ==
    LET vals == ColumnVals(L_t, j)
    IN  IF Cardinality(vals) > 1 THEN [ok |-> FALSE, val |-> 0]
        ELSE IF Cardinality(vals) = 0 THEN [ok |-> TRUE, val |-> 0]
        ELSE [ok |-> TRUE, val |-> CHOOSE v \in vals : TRUE]

(***************************************************************************)
(* _get_overlaps_matrix, step by step.                                     *)
(***************************************************************************)
RECURSIVE FSum(_, _)
\* f[1] + ... + f[n], accumulated left to right
FSum(f, n) == IF n = 0 THEN Zero ELSE FAdd(FSum(f, n - 1), f[n])

MatMul(A, B, m) ==
    [i \in 1..m |-> [j \in 1..m |->
        FSum([l \in 1..m |-> FMul(A[i][l], B[l][j])], m)]]

\* L_nz = L_t with every stored vote set to 1; O = L_nz.T @ L_nz / N
CoPresence(L_t) ==
    LET N == Rows(L_t)
        m == Cols(L_t)
        nz(n, j) == IF L_t[n][j] # 0 THEN 1 ELSE 0
        cnt(i, j) == Cardinality({n \in 1..N : nz(n, i) * nz(n, j) = 1})
    IN  [i \in 1..m |-> [j \in 1..m |-> Fin(cnt(i, j), N)]]

\* PropensityNormalize dividing the rows only: O = B @ O
PropensityNormalizeRows(Oc) ==
    LET m == Len(Oc)
        B == [i \in 1..m |-> [j \in 1..m |->
                 IF i = j THEN FRecip(Oc[i][i]) ELSE Zero]]
    IN  MatMul(B, Oc, m)

\* beta = diag(O); B = diag(1 / beta); O = B @ O @ B
PropensityNormalize(Oc) ==
    LET m == Len(Oc)
        B == [i \in 1..m |-> [j \in 1..m |->
                 IF i = j THEN FRecip(Oc[i][i]) ELSE Zero]]
    IN  MatMul(MatMul(B, Oc, m), B, m)

\* PolarityCorrect without the shift by 1: O[i,j] = c * O[i,j]
PolarityCorrectNoShift(On, p, selfM) ==
    [i \in 1..Len(On) |-> [j \in 1..Len(On) |->
        IF i # j /\ i <= selfM /\ j <= selfM
        THEN IF p[i] = p[j] THEN On[i][j] ELSE FNeg(On[i][j])
        ELSE On[i][j]]]

\* O[i,j] = c * (O[i,j] - 1) for i != j, c = 1 if p[i] == p[j] else -1
PolarityCorrect(On, p, selfM) ==
    [i \in 1..Len(On) |-> [j \in 1..Len(On) |->
        IF i # j /\ i <= selfM /\ j <= selfM
        THEN LET x == FAdd(On[i][j], Fin(-1, 1))
             IN  IF p[i] = p[j] THEN x ELSE FNeg(x)
        ELSE On[i][j]]]

\* NanToZero left out
NanToZeroSkipped(Om) == Om

\* O[np.isnan(O)] = 0
NanToZero(Om) ==
    [i \in 1..Len(Om) |-> [j \in 1..Len(Om) |->
        IF IsNaN(Om[i][j]) THEN Zero ELSE Om[i][j]]]

ClampMin == Fin(-95, 100)
ClampMax == Fin(95, 100)

\* torch.clamp(x, min=-0.95, max=0.95): NaN stays NaN
Clamp(x) ==
    IF IsNaN(x) THEN NaN
    ELSE IF FLess(x, ClampMin) THEN ClampMin
    ELSE IF FLess(ClampMax, x) THEN ClampMax
    ELSE x

ClampO(Om) == [i \in 1..Len(Om) |-> [j \in 1..Len(Om) |-> Clamp(Om[i][j])]]

\* p = [self._infer_polarity(L_t, t, j) for j in range(self.M)]
Polarities(L_t, selfM) == [j \in 1..selfM |-> InferPolarity(L_t, j)]

\* The whole of _get_overlaps_matrix: the non-unipolar error, or the matrix
GetOverlapsMatrix(L_t, selfM) ==
    LET pr == Polarities(L_t, selfM)
        p == [j \in 1..selfM |-> pr[j].val]
    IN  IF \E j \in 1..selfM : ~pr[j].ok
        THEN [err |-> "NonUnipolar", O |-> <<>>]
        ELSE [err |-> "none",
              O |-> ClampO(NanToZero(PolarityCorrect(
                        PropensityNormalize(CoPresence(L_t)), p, selfM)))]


(***************************************************************************)
(* float32 tensors in fixed point.                                         *)
(***************************************************************************)
\* a / b rounded to the nearest integer (b > 0)
RoundDiv(a, b) == (2 * a + b) \div (2 * b)

MulFx(a, b) == RoundDiv(a * b, Scale)

\* torch.from_numpy(O).float() of a finite entry
ToFixed(x) == RoundDiv(x.n * Scale, x.d)

ToFixedO(Om) == [i \in 1..Len(Om) |-> [j \in 1..Len(Om) |-> ToFixed(Om[i][j])]]

(***************************************************************************)
(* Classifier._check_or_set_attr(name, val, set_val): set the attribute,   *)
(* or compare it with val and raise when they differ.                      *)
(***************************************************************************)
CheckOrSetAttr(cur, absent, val, set_val) ==
    IF set_val THEN [err |-> "none", val |-> val]
    ELSE IF cur = absent THEN [err |-> "AttributeError", val |-> cur]
    ELSE IF cur # val THEN [err |-> "AttrMismatch", val |-> cur]
    ELSE [err |-> "none", val |-> cur]

(***************************************************************************)
(* _check_L.  arg is the caller's argument: [list |-> is it a Python list, *)
(* ms |-> its matrices].  self is the record of the attributes _check_L    *)
(* reads and writes.  The result carries the attributes as _check_L leaves *)
(* them, also when it raises.                                              *)
(***************************************************************************)
AMax(L_t) ==
    LET vs == {L_t[n][j] : <<n, j>> \in (1..Rows(L_t)) \X (1..Cols(L_t))}
    IN  CHOOSE v \in vs : \A w \in vs : w <= v

\* list(range(K))
Range(K) == [i \in 1..K |-> i - 1]

\* the first task the loop of lines 267-279 raises on, or 0
FirstBadTask(L, m, n) ==
    LET bad == {t \in 1..Len(L) : Cols(L[t]) # m \/ Rows(L[t]) # n}
    IN  IF bad = {} THEN 0 ELSE CHOOSE t \in bad : \A u \in bad : t <= u

CheckL(arg, init, self) ==
    LET L == arg.ms
        out(e, m, lm, k) ==
            [err |-> e, L |-> L, M |-> m, label_map |-> lm, K_t |-> k]
        same(e) == out(e, self.M, self.label_map, self.K_t)
    IN
    \* lines 252-258
    IF self.multitask /\ ~arg.list THEN same("AssertionError")
    ELSE
    \* line 261
    LET ct == CheckOrSetAttr(self.T, NoAttr, Len(L), FALSE) IN
    IF ct.err # "none" THEN same(ct.err)
    ELSE
    \* lines 262-264
    LET n == Rows(L[1])
        m == Cols(L[1])
        cm == CheckOrSetAttr(self.M, NoAttr, m, init)
    IN
    IF cm.err # "none" THEN same(cm.err)
    ELSE
    \* lines 267-279
    LET bt == FirstBadTask(L, cm.val, n) IN
    IF bt # 0
    THEN out(IF Cols(L[bt]) # cm.val THEN "AttrMismatch" ELSE "RowMismatch",
             cm.val, self.label_map, self.K_t)
    ELSE
    \* lines 283-288
    IF self.label_map = None /\ init /\ self.T > 1
    THEN out("LabelMapError", cm.val, self.label_map, self.K_t)
    ELSE
    LET lm == IF self.label_map = None /\ init
              THEN <<Range(AMax(L[1]))>>
              ELSE self.label_map
    IN
    \* lines 291-292
    IF lm = None THEN out("TypeError", cm.val, lm, self.K_t)
    ELSE
    LET ck == CheckOrSetAttr(self.K_t, Unset,
                             [t \in 1..Len(lm) |-> Len(lm[t])], init)
    IN
    IF ck.err # "none" THEN out(ck.err, cm.val, lm, self.K_t)
    ELSE
    \* lines 295-298
    IF \E t \in 1..Len(L) : AMax(L[t]) > ck.val[t]
    THEN out("Cardinality", cm.val, lm, ck.val)
    ELSE out("none", cm.val, lm, ck.val)


(***************************************************************************)
(* The fitter: _init_params, _task_loss, get_loss and one optimizer step.  *)
(***************************************************************************)
\* gamma_init * torch.ones(self.T, self.M)
InitParams(g0, selfT, selfM) == [t \in 1..selfT |-> [i \in 1..selfM |-> g0]]

RECURSIVE ISum(_, _)
ISum(f, n) == IF n = 0 THEN 0 ELSE ISum(f, n - 1) + f[n]

\* gamma[t,i] * gamma[t,j] - O_t[i,j]
Residual(g_t, O_t, i, j) == MulFx(g_t[i], g_t[j]) - O_t[i][j]

\* _task_loss(O_t, t, l2): the value of the scaled loss
TaskLoss(g_t, O_t, g0, l2) ==
    LET m == Len(g_t)
        sq(i, j) == IF i = j THEN 0
                    ELSE MulFx(Residual(g_t, O_t, i, j), Residual(g_t, O_t, i, j))
        pairs == ISum([i \in 1..m |-> ISum([j \in 1..m |-> sq(i, j)], m)], m)
        reg == ISum([i \in 1..m |-> MulFx(g_t[i] - g0, g_t[i] - g0)], m)
    IN  RoundDiv(pairs, m * m - m) + (IF l2 > 0 THEN MulFx(l2, reg) ELSE 0)

\* TaskLossGrad without the inner derivative gamma[t,j] of the product
TaskLossGradNoChain(g_t, O_t, g0, l2, i) ==
    LET m == Len(g_t)
        term(j) == IF i = j THEN 0
                   ELSE 2 * Residual(g_t, O_t, i, j) + 2 * Residual(g_t, O_t, j, i)
    IN  RoundDiv(ISum([j \in 1..m |-> term(j)], m), m * m - m)
        + (IF l2 > 0 THEN 2 * MulFx(l2, g_t[i] - g0) ELSE 0)

\* loss.backward(): the derivative of TaskLoss with respect to gamma[t,i].
\* gamma[t,i] occurs in the terms (i,j) and (j,i) of the double loop.
TaskLossGrad(g_t, O_t, g0, l2, i) ==
    LET m == Len(g_t)
        term(j) == IF i = j THEN 0
                   ELSE 2 * MulFx(Residual(g_t, O_t, i, j), g_t[j])
                      + 2 * MulFx(Residual(g_t, O_t, j, i), g_t[j])
    IN  RoundDiv(ISum([j \in 1..m |-> term(j)], m), m * m - m)
        + (IF l2 > 0 THEN 2 * MulFx(l2, g_t[i] - g0) ELSE 0)

\* get_loss sums the task losses, so the gradient of gamma[t] is task t's own
LossGrad(g, Ol, g0, l2) ==
    [t \in 1..Len(g) |-> [i \in 1..Len(g[t]) |->
        TaskLossGrad(g[t], Ol[t], g0, l2, i)]]

\* optimizer.step() of SGD(lr, momentum, weight_decay) on gamma
SGDStep(g, grad, b, cfg) ==
    LET d(t, i) == grad[t][i]
                   + (IF cfg.weight_decay # 0
                      THEN MulFx(cfg.weight_decay, g[t][i]) ELSE 0)
        nb(t, i) == IF b = Unset THEN d(t, i)
                    ELSE MulFx(cfg.momentum, b[t][i]) + d(t, i)
        step(t, i) == IF cfg.momentum # 0 THEN nb(t, i) ELSE d(t, i)
    IN  [gamma |-> [t \in 1..Len(g) |-> [i \in 1..Len(g[t]) |->
                       g[t][i] - MulFx(cfg.lr, step(t, i))]],
         buf |-> IF cfg.momentum # 0
                 THEN [t \in 1..Len(g) |-> [i \in 1..Len(g[t]) |-> nb(t, i)]]
                 ELSE b]

(***************************************************************************)
(* The predictor: accs, log_odds_accs, predict_task_proba.                 *)
(***************************************************************************)
AccMin == Scale \div 100
AccMax == (99 * Scale) \div 100

\* torch.clamp(0.5 * (gamma + 1), min=0.01, max=0.99)
Acc(x) ==
    LET a == MulFx(Scale \div 2, x + Scale)
    IN  IF a < AccMin THEN AccMin ELSE IF a > AccMax THEN AccMax ELSE a

\* log(acc / (1 - acc)), held as the odds acc / (1 - acc)
LogOddsAcc(x) == Fin(Acc(x), Scale - Acc(x))

RECURSIVE FPow(_, _)
\* e times the log-odds w: the odds to the power e
FPow(w, e) ==
    IF e = 0 THEN One
    ELSE IF e < 0 THEN FMul(FRecip(w), FPow(w, e + 1))
    ELSE FMul(w, FPow(w, e - 1))

RECURSIVE FProd(_, _)
FProd(f, n) == IF n = 0 THEN One ELSE FMul(FProd(f, n - 1), f[n])

\* SignedVotes without the test L_t != 0: an abstention counts against y
SignedVotesNoAbstain(L_t, y) ==
    [n \in 1..Rows(L_t) |-> [j \in 1..Cols(L_t) |->
        IF L_t[n][j] = y THEN 1 ELSE 0 - 1]]

\* the two torch.where of lines 161-163 for class y
SignedVotes(L_t, y) ==
    LET first == [n \in 1..Rows(L_t) |-> [j \in 1..Cols(L_t) |->
                     IF L_t[n][j] # y /\ L_t[n][j] # 0 THEN -1 ELSE L_t[n][j]]]
    IN  [n \in 1..Rows(L_t) |-> [j \in 1..Cols(L_t) |->
            IF first[n][j] = y THEN 1 ELSE first[n][j]]]

\* Y_pt[:, y-1] = L_t_y @ self.log_odds_accs[t], for every y: N rows of K scores
Scores(L_t, g_t, K) ==
    [n \in 1..Rows(L_t) |-> [y \in 1..K |->
        FProd([j \in 1..Cols(L_t) |->
                  FPow(LogOddsAcc(g_t[j]), SignedVotes(L_t, y)[n][j])],
              Cols(L_t))]]

\* F.softmax(Y_pt, dim=1) on scores held as their exponentials
Softmax(Y) ==
    [n \in 1..Len(Y) |-> [y \in 1..Len(Y[n]) |->
        FMul(Y[n][y], FRecip(FSum(Y[n], Len(Y[n]))))]]

\* predict_task_proba(L, t): the error it raises, or the N x K_t matrix
PredictTaskProba(arg, t, self) ==
    LET c == CheckL(arg, FALSE, self)
        K == self.K_t[t]
        L_t == c.L[t]
    IN  IF c.err # "none" THEN [err |-> c.err, Y |-> <<>>, N |-> 0, K |-> 0]
        ELSE IF K = 0
        THEN [err |-> "none", Y |-> [n \in 1..Rows(L_t) |-> <<>>],
              N |-> Rows(L_t), K |-> 0]
        ELSE IF self.gamma = Unset
        THEN [err |-> "AttributeError", Y |-> <<>>, N |-> 0, K |-> 0]
        ELSE IF Len(self.gamma[t]) # Cols(L_t)
        THEN [err |-> "ShapeError", Y |-> <<>>, N |-> 0, K |-> 0]
        ELSE [err |-> "none", Y |-> Softmax(Scores(L_t, self.gamma[t], K)),
              N |-> Rows(L_t), K |-> K]


(***************************************************************************)
(* The object and its callers.                                             *)
(***************************************************************************)
Self ==
    [multitask |-> multitask, T |-> T, M |-> M, K_t |-> K_t,
     label_map |-> label_map, gamma |-> gamma]

\* the label list [1, ..., k] of one task
Labels(k) == [i \in 1..k |-> i]

\* label_map arguments of the constructor: None, or one label list per task
CtorLabelMaps ==
    {None} \cup UNION {[1..n -> {Labels(k) : k \in 1..MaxK}] : n \in 1..MaxT}

\* the train_config and optimizer_config entries train reads
Config(g0, n, l2, lr, mo, wd) ==
    [gamma_init |-> g0, n_epochs |-> n, l2 |-> l2,
     lr |-> lr, momentum |-> mo, weight_decay |-> wd]

Pct(x) == (x * Scale) \div 100

\* configurations given to the constructor
CtorConfigs == {Config(Pct(80), MaxEpochs, Pct(10), Pct(50), Pct(90), 0)}

\* keyword arguments given to train
TrainKwargs == {<<>>, [n_epochs |-> 0]}

\* recursive_merge_dicts(x, y): a copy of x with y's entries written over it
RecursiveMergeDicts(x, y) ==
    [key \in DOMAIN x |-> IF key \in DOMAIN y THEN y[key] ELSE x[key]]

\* the matrices callers pass to train and to the predict methods
CallMatrices == {m \in AllMatrices : Rows(m) * Cols(m) <= MaxCells}

\* what a caller passes as L: a list of matrices to a multi-task model, one
\* matrix to a single-task model
CallerArgs ==
    IF multitask
    THEN {[list |-> TRUE, ms |-> ms] :
             ms \in UNION {[1..n -> CallMatrices] : n \in 1..MaxT}}
    ELSE {[list |-> FALSE, ms |-> <<m>>] : m \in CallMatrices}

\* @multitask([0]): a single-task model's argument is wrapped in a list
MultitaskIn(arg) == IF multitask THEN arg ELSE [list |-> TRUE, ms |-> arg.ms]

\* some source of some task of the argument votes for two classes
HasNonUnipolar(arg) ==
    \E t \in 1..Len(arg.ms) : \E j \in 1..Cols(arg.ms[t]) :
        Cardinality(ColumnVals(arg.ms[t], j)) > 1

Call(op, err, checked, nonuni, shape) ==
    [op |-> op, err |-> err, checked |-> checked, nonuni |-> nonuni,
     shape |-> shape]

NoProbe == <<>>

\* LabelModel(label_map=lm, **kwargs)
Init ==
    /\ label_map \in CtorLabelMaps
    /\ config \in CtorConfigs
    /\ multitask = (label_map # None /\ Len(label_map) > 1)
    /\ T = (IF label_map # None THEN Len(label_map) ELSE 1)
    /\ M = NoAttr
    /\ K_t = Unset
    /\ gamma = Unset
    /\ gamma_init = 0
    /\ pc = "idle"
    /\ O = <<>>
    /\ epoch = 0
    /\ buf = Unset
    /\ last = Call("init", "none", FALSE, FALSE, <<>>)
    /\ probe = NoProbe

\* train(L_train, **kwargs) up to the first epoch of its loop
Train(arg, kw) ==
    /\ pc = "idle"
    /\ LET cfg == RecursiveMergeDicts(config, kw)
           c == CheckL(MultitaskIn(arg), TRUE, Self)
           ov == [t \in 1..Len(c.L) |-> GetOverlapsMatrix(c.L[t], c.M)]
           err == IF c.err # "none" THEN c.err
                  ELSE IF \E t \in 1..Len(c.L) : ov[t].err # "none"
                       THEN "NonUnipolar"
                       ELSE "none"
       IN  /\ config' = cfg
           /\ M' = c.M
           /\ label_map' = c.label_map
           /\ K_t' = c.K_t
           /\ IF err # "none"
              THEN /\ last' = Call("train", err, c.err = "none",
                                   HasNonUnipolar(arg), <<>>)
                   /\ UNCHANGED <<gamma, gamma_init, pc, O, epoch, buf>>
              ELSE /\ gamma_init' = cfg.gamma_init
                   /\ gamma' = InitParams(cfg.gamma_init, T, c.M)
                   /\ epoch' = 0
                   /\ buf' = Unset
                   /\ IF cfg.n_epochs = 0
                      THEN /\ pc' = "idle"
                           /\ O' = <<>>
                           /\ last' = Call("train", "none", TRUE,
                                           HasNonUnipolar(arg), <<>>)
                      ELSE /\ pc' = "train"
                           /\ O' = [t \in 1..Len(c.L) |-> ToFixedO(ov[t].O)]
                           /\ last' = Call("train", "running", TRUE,
                                           HasNonUnipolar(arg), <<>>)
    /\ UNCHANGED <<multitask, T, probe>>

\* one pass of the loop of lines 218-227, and the return after the last one
Epoch ==
    /\ pc = "train"
    /\ IF M * M - M = 0
       THEN \* loss /= (self.M**2 - self.M) on the float 0.0
            /\ pc' = "idle"
            /\ O' = <<>>
            /\ last' = [last EXCEPT !.err = "ZeroDivisionError"]
            /\ UNCHANGED <<gamma, buf, epoch>>
       ELSE LET s == SGDStep(gamma, LossGrad(gamma, O, gamma_init, config.l2),
                             buf, config)
            IN  /\ gamma' = s.gamma
                /\ epoch' = epoch + 1
                /\ IF epoch + 1 = config.n_epochs
                   THEN /\ pc' = "idle"
                        /\ O' = <<>>
                        /\ buf' = Unset
                        /\ last' = [last EXCEPT !.err = "none"]
                   ELSE /\ buf' = s.buf
                        /\ UNCHANGED <<pc, O, last>>
    /\ UNCHANGED <<multitask, T, M, K_t, label_map, config, gamma_init, probe>>

\* the comprehension of line 132: the first error, or every task's result
PredictAll(L) ==
    LET r == [t \in 1..Len(L) |->
                 PredictTaskProba([list |-> FALSE, ms |-> <<L[t]>>], t, Self)]
        bad == {t \in 1..Len(L) : r[t].err # "none"}
    IN  IF bad # {}
        THEN [err |-> r[CHOOSE t \in bad : \A u \in bad : t <= u].err,
              shape |-> <<>>]
        ELSE [err |-> "none",
              shape |-> [t \in 1..Len(L) |-> <<r[t].N, r[t].K>>]]

\* predict_proba(L)
PredictProba(arg) ==
    /\ pc = "idle"
    /\ LET c == CheckL(MultitaskIn(arg), FALSE, Self)
           r == PredictAll(c.L)
       IN  IF c.err # "none"
           THEN last' = Call("predict_proba", c.err, FALSE, FALSE, <<>>)
           ELSE last' = Call("predict_proba", r.err, TRUE, FALSE, r.shape)
    /\ UNCHANGED <<multitask, T, M, K_t, label_map, config, gamma, gamma_init,
                   pc, O, epoch, buf, probe>>

\* predict_task_proba(L, t), called directly
PredictTask(arg, t) ==
    /\ pc = "idle"
    /\ LET r == PredictTaskProba(arg, t, Self)
       IN  last' = Call("predict_task_proba", r.err, r.err = "none", FALSE,
                        IF r.err = "none" THEN <<<<r.N, r.K>>>> ELSE <<>>)
    /\ UNCHANGED <<multitask, T, M, K_t, label_map, config, gamma, gamma_init,
                   pc, O, epoch, buf, probe>>

Next ==
    \/ \E arg \in CallerArgs, kw \in TrainKwargs : Train(arg, kw)
    \/ Epoch
    \/ \E arg \in CallerArgs : PredictProba(arg)
    \/ \E arg \in CallerArgs, t \in 1..T : PredictTask(arg, t)

Spec == Init /\ [][Next]_vars


(***************************************************************************)
(* The estimator on its own: one vote matrix, as _check_L hands it to      *)
(* _get_overlaps_matrix (self.M is its column count), and the run of       *)
(* _infer_polarity on every column and of _get_overlaps_matrix on it.      *)
(***************************************************************************)
InitOverlaps ==
    /\ \E L_t \in AllMatrices :
          /\ probe = [L |-> L_t, done |-> FALSE]
          /\ M = Cols(L_t)
    /\ label_map = <<Labels(MaxK)>>
    /\ K_t = <<MaxK>>
    /\ multitask = FALSE
    /\ T = 1
    /\ config \in CtorConfigs
    /\ gamma = Unset
    /\ gamma_init = 0
    /\ pc = "probe"
    /\ O = <<>>
    /\ epoch = 0
    /\ buf = Unset
    /\ last = Call("init", "none", FALSE, FALSE, <<>>)

RunOverlaps ==
    /\ pc = "probe"
    /\ ~probe.done
    /\ LET r == GetOverlapsMatrix(probe.L, M)
       IN  probe' = [L |-> probe.L, done |-> TRUE,
                     p |-> Polarities(probe.L, M),
                     \* line 63 is not reached when line 48 raises
                     normalized |-> IF r.err = "none"
                                    THEN PropensityNormalize(CoPresence(probe.L))
                                    ELSE <<>>,
                     ret |-> r]
    /\ UNCHANGED <<multitask, T, M, K_t, label_map, config, gamma, gamma_init,
                   pc, O, epoch, buf, last>>

SpecOverlaps == InitOverlaps /\ [][RunOverlaps]_vars

(***************************************************************************)
(* The fitter on its own: train after line 208, for any symmetric overlaps *)
(* matrices with entries the estimator returns and any hyperparameters.    *)
(***************************************************************************)
\* off-diagonal entries of an overlaps matrix: the two values the estimator
\* returns for sources that vote on different data points, -0.95 when their
\* polarities are equal and 0.95 when they differ
OVals == {Pct(0 - 95), Pct(95)}

SymmetricOs(m) ==
    {Om \in [1..m -> [1..m -> OVals]] :
        \A i \in 1..m : /\ Om[i][i] = Pct(95)
                         /\ \A j \in 1..m : Om[i][j] = Om[j][i]}

FitConfigs ==
    {Config(g0, n, l2, Pct(50), mo, wd) :
        g0 \in {0, Pct(80)}, n \in 1..MaxEpochs, l2 \in {0, Pct(10)},
        mo \in {0, Pct(90)}, wd \in {0, Pct(10)}}

InitFit ==
    /\ T \in 1..MaxT
    /\ M \in 1..MaxM
    /\ multitask = (T > 1)
    /\ label_map = [t \in 1..T |-> Labels(MaxK)]
    /\ K_t = [t \in 1..T |-> MaxK]
    /\ config \in FitConfigs
    /\ gamma_init = config.gamma_init
    /\ gamma = InitParams(config.gamma_init, T, M)
    /\ O \in [1..T -> SymmetricOs(M)]
    /\ pc = "train"
    /\ epoch = 0
    /\ buf = Unset
    /\ last = Call("train", "running", TRUE, FALSE, <<>>)
    /\ probe = NoProbe

SpecFit == InitFit /\ [][Epoch]_vars

(***************************************************************************)
(* The predictor on its own: a fitted single-task model and one call of    *)
(* predict_task_proba.                                                     *)
(***************************************************************************)
\* fitted values of gamma: accuracies 0.1, 0.5 and 0.8
GammaVals == {Pct(0 - 80), 0, Pct(60)}

InitPredict ==
    /\ \E L_t \in CallMatrices :
          /\ probe = [L |-> L_t, done |-> FALSE]
          /\ M = Cols(L_t)
    /\ \E K \in 1..MaxK :
          /\ label_map = <<Labels(K)>>
          /\ K_t = <<K>>
    /\ multitask = FALSE
    /\ T = 1
    /\ config \in CtorConfigs
    /\ gamma_init = config.gamma_init
    /\ gamma \in [1..1 -> [1..M -> GammaVals]]
    /\ pc = "probe"
    /\ O = <<>>
    /\ epoch = 0
    /\ buf = Unset
    /\ last = Call("train", "none", TRUE, FALSE, <<>>)

RunPredict ==
    /\ pc = "probe"
    /\ ~probe.done
    /\ LET r == PredictTaskProba([list |-> FALSE, ms |-> <<probe.L>>], 1, Self)
       IN  probe' = [L |-> probe.L, done |-> TRUE, err |-> r.err,
                     Y_pt |-> IF r.err = "none"
                              THEN Scores(probe.L, gamma[1], K_t[1])
                              ELSE <<>>,
                     Y |-> r.Y]
    /\ UNCHANGED <<multitask, T, M, K_t, label_map, config, gamma, gamma_init,
                   pc, O, epoch, buf, last>>

SpecPredict == InitPredict /\ [][RunPredict]_vars


(***************************************************************************)
(* Properties of the estimator, checked under SpecOverlaps.                *)
(***************************************************************************)
Votes(L_t, i) == \E n \in 1..Rows(L_t) : L_t[n][i] # 0

VoteCount(L_t, i) == Cardinality({n \in 1..Rows(L_t) : L_t[n][i] # 0})

NeverCoOccur(L_t, i, j) ==
    \A n \in 1..Rows(L_t) : L_t[n][i] = 0 \/ L_t[n][j] = 0

Returned == probe.done /\ probe.ret.err = "none"

\* C1 as stated: two distinct sources that never vote on the same data point
\* have the entry 0 in the returned overlaps matrix.
C1_NeverCoOccurIsZero ==
    Returned =>
        \A i, j \in 1..M :
            (i # j /\ NeverCoOccur(probe.L, i, j)) => probe.ret.O[i][j] = Zero

\* C1 amended: for two distinct sources that never vote on the same data
\* point, the returned entry is 0 when one of them never votes at all, and
\* otherwise -0.95 when their polarities are equal and 0.95 when they differ.
C1_NeverCoOccurEntry ==
    Returned =>
        \A i, j \in 1..M :
            (i # j /\ NeverCoOccur(probe.L, i, j)) =>
                probe.ret.O[i][j] =
                    IF ~Votes(probe.L, i) \/ ~Votes(probe.L, j) THEN Zero
                    ELSE IF probe.p[i].val = probe.p[j].val THEN ClampMin
                    ELSE ClampMax

C1_Witness ==
    /\ Returned
    /\ \E i, j \in 1..M :
          /\ i # j /\ NeverCoOccur(probe.L, i, j)
          /\ Votes(probe.L, i) /\ Votes(probe.L, j)
          /\ probe.p[i].val # probe.p[j].val

\* C2: every entry of the returned overlaps matrix is a number (not NaN) in
\* [-0.95, 0.95], also in the row and column of a source that never votes.
C2_EntriesClamped ==
    Returned =>
        \A i, j \in 1..M :
            /\ probe.ret.O[i][j].k = "fin"
            /\ ~FLess(probe.ret.O[i][j], ClampMin)
            /\ ~FLess(ClampMax, probe.ret.O[i][j])

C2_Witness ==
    /\ Returned
    /\ \E i, j \in 1..M :
          /\ i # j /\ ~Votes(probe.L, i) /\ Votes(probe.L, j)
          /\ IsNaN(probe.normalized[i][j])
          /\ probe.ret.O[i][j] = Zero

\* C3 as stated: the diagonal entry of a voting source is 1 after the
\* propensity normalization, and the returned diagonal entry equals it.
C3_DiagonalIsOne ==
    Returned =>
        \A i \in 1..M :
            Votes(probe.L, i) =>
                /\ probe.normalized[i][i] = One
                /\ probe.ret.O[i][i] = probe.normalized[i][i]

\* C3 amended: after the propensity normalization the diagonal entry of a
\* voting source is 1/beta_i = N/n_i (n_i the number of points it votes on),
\* which is at least 1, and the returned diagonal entry is the clamp bound 0.95.
C3_DiagonalIsInversePropensity ==
    Returned =>
        \A i \in 1..M :
            Votes(probe.L, i) =>
                /\ probe.normalized[i][i]
                       = Fin(Rows(probe.L), VoteCount(probe.L, i))
                /\ ~FLess(probe.normalized[i][i], One)
                /\ probe.ret.O[i][i] = ClampMax

C3_Witness ==
    /\ Returned
    /\ \E i \in 1..M :
          /\ Votes(probe.L, i)
          /\ VoteCount(probe.L, i) < Rows(probe.L)
          /\ probe.normalized[i][i] # One

\* C6: _infer_polarity returns the class of a column that holds votes of one
\* non-zero class only, and 0 for a column without votes.
C6_PolarityOfUnipolar ==
    probe.done =>
        \A j \in 1..M :
            /\ \A v \in 1..MaxK :
                  (/\ \E n \in 1..Rows(probe.L) : probe.L[n][j] = v
                   /\ \A n \in 1..Rows(probe.L) : probe.L[n][j] \in {0, v})
                  => probe.p[j] = [ok |-> TRUE, val |-> v]
            /\ ~Votes(probe.L, j) => probe.p[j] = [ok |-> TRUE, val |-> 0]

C6_Witness ==
    /\ probe.done
    /\ \E i, j \in 1..M :
          /\ ~Votes(probe.L, i) /\ probe.p[i].val = 0
          /\ Votes(probe.L, j) /\ probe.p[j].ok /\ probe.p[j].val = MaxK

(***************************************************************************)
(* Properties of the predictor, checked under SpecPredict.                 *)
(***************************************************************************)
\* +1: the source voted k; -1: it voted another class; 0: it abstained
VoteSign(v, k) == IF v = k THEN 1 ELSE IF v # 0 THEN 0 - 1 ELSE 0

\* sum over the sources j of VoteSign * log_odds_accs[t][j], as odds
ExpectedScore(L_t, g_t, n, k) ==
    FProd([j \in 1..Cols(L_t) |->
              FPow(LogOddsAcc(g_t[j]), VoteSign(L_t[n][j], k))], Cols(L_t))

AllAbstain(L_t, n) == \A j \in 1..Cols(L_t) : L_t[n][j] = 0

Predicted == probe.done /\ probe.err = "none"

\* C8: the score of data point n for class k is the sum over the sources of
\* sign * log-odds accuracy; a row on which every source abstains has score 0
\* (odds 1) for every class and the uniform distribution, and rows sum to 1.
C8_ScoresAndUniform ==
    Predicted =>
        \A n \in 1..Rows(probe.L) :
            /\ \A k \in 1..K_t[1] :
                  probe.Y_pt[n][k] = ExpectedScore(probe.L, gamma[1], n, k)
            /\ AllAbstain(probe.L, n) =>
                  \A k \in 1..K_t[1] :
                      /\ probe.Y_pt[n][k] = One
                      /\ probe.Y[n][k] = Fin(1, K_t[1])
            /\ FSum(probe.Y[n], K_t[1]) = One

C8_Witness ==
    /\ Predicted
    /\ K_t[1] = MaxK
    /\ M > 1
    /\ \E n \in 1..Rows(probe.L) : AllAbstain(probe.L, n)
    /\ \A k \in 1..K_t[1] : probe.Y[1][k] = Fin(1, MaxK)

(***************************************************************************)
(* Properties of the fitter, checked under SpecFit.                        *)
(***************************************************************************)
GammaIsZero ==
    \A t \in 1..Len(gamma) : \A i \in 1..Len(gamma[t]) : gamma[t][i] = 0

\* C9: trained from gamma_init = 0, gamma is all zero after every epoch,
\* whatever the overlaps matrices, l2, learning rate, momentum, weight decay.
C9_ZeroIsFixedPoint == config.gamma_init = 0 => GammaIsZero

C9_Witness ==
    /\ config.gamma_init = 0
    /\ epoch > 1
    /\ M > 1
    /\ config.l2 > 0 /\ config.momentum > 0 /\ config.weight_decay > 0
    /\ GammaIsZero

(***************************************************************************)
(* Properties of the object, checked under Spec.                           *)
(***************************************************************************)
\* a call of train that returns by raising
TrainRaises == pc = "idle" /\ pc' = "idle" /\ last'.op = "train"
               /\ last'.err # "none"

\* C4: a call of train that fails validation leaves config, T, M, label_map,
\* K_t and gamma as they were before the call.
C4_FailedTrainChangesNothing ==
    [][TrainRaises =>
          /\ config' = config /\ T' = T /\ M' = M
          /\ label_map' = label_map /\ K_t' = K_t /\ gamma' = gamma]_vars

Trained ==
    /\ gamma # Unset
    /\ Len(gamma) = T
    /\ \A t \in 1..T : Len(gamma[t]) = M

\* C5: on a trained model predict_proba, given an argument _check_L accepts,
\* returns one N x K_t matrix per task and does not raise.
C5_PredictProbaReturns ==
    (last.op = "predict_proba" /\ last.checked /\ Trained) =>
        /\ last.err = "none"
        /\ Len(last.shape) = T
        /\ \A t \in 1..T : last.shape[t][2] = K_t[t]

\* a call of train whose argument has a source voting for two classes
TrainOnNonUnipolar == pc = "idle" /\ last'.op = "train" /\ last'.nonuni

\* C7 as stated: train on an input with a non-unipolar source fails with the
\* non-unipolar error, gamma untouched and no optimizer step taken.
C7_NonUnipolarError ==
    [][TrainOnNonUnipolar =>
          /\ last'.err = "NonUnipolar"
          /\ gamma' = gamma /\ pc' = "idle" /\ epoch' = epoch]_vars

\* C7 amended: train on an input with a non-unipolar source always fails,
\* gamma untouched and no optimizer step taken: with the non-unipolar error
\* when _check_L accepts the input, with _check_L's own error otherwise.
C7_NonUnipolarFails ==
    [][TrainOnNonUnipolar =>
          /\ last'.err # "none" /\ last'.err # "running"
          /\ last'.checked <=> last'.err = "NonUnipolar"
          /\ gamma' = gamma /\ pc' = "idle" /\ epoch' = epoch]_vars

C7_Witness ==
    /\ last.op = "train" /\ last.nonuni /\ last.checked
    /\ last.err = "NonUnipolar"
    /\ gamma # Unset

\* C10: whenever gamma exists, its shape is (T, M) for the T and M recorded
\* on the object.
C10_GammaShape ==
    gamma # Unset =>
        /\ Len(gamma) = T
        /\ \A t \in 1..Len(gamma) : Len(gamma[t]) = M

=============================================================================
